---- MODULE Spec2Model ----
(***************************************************************************)
(* R-tree (linear split) of code_v2_linear_square.py and the linear scan   *)
(* of linear_search.py.                                                    *)
(*                                                                         *)
(* Units.  Coordinates are whole degrees (the loader's items are drawn     *)
(* from the grid Lats x Lons), so every float operation of the geometry    *)
(* (min, max, subtraction, area) is exact and is modelled on integers.     *)
(* Distances and radii are whole metres (the code's kilometres * 1000).    *)
(* Nodes live in an arena `nodes`; a node reference is its index, 0 is the *)
(* Python None.  A Point object is its index in `points`.  Sequences are   *)
(* 1-based where the Python lists are 0-based.                             *)
(***************************************************************************)
EXTENDS Integers, Sequences, FiniteSets, TLC

\* ------------------------------------------------------------- bounds
\* Number of insert calls explored.
MaxInserts == 4

\* Latitudes and longitudes (degrees) of the loaded items and of the query centers.
Lats == {0, 1}
Lons == {0, 1}
Coords == [lat : Lats, lon : Lons]

\* Values of --max-entries explored (argparse accepts any int).
MaxEntriesArgs == {0, 1, 2, 3}

\* Values of the radius explored, in metres.
Radii == {0, 50000, 112000, 160000}

\* Longer files, loaded into trees of the smallest capacities the data model
\* allows: the number of insert calls and the values of --max-entries.
MaxDeepInserts == 6
DeepMaxEntriesArgs == {2, 3}

\* A wider grid of items for the splits: three latitudes.
WideLats == {0, 1, 2}
WideCoords == [lat : WideLats, lon : Lons]

\* Stations on both sides of the 180th meridian and at high latitude, the
\* radii of the queries made among them, and the items loaded.
WorldCoords == {[lat |-> 0, lon |-> 179], [lat |-> 0, lon |-> -180],
                [lat |-> 60, lon |-> 0], [lat |-> 66, lon |-> 37]}
WorldRadii == {112000, 2000000}
MaxWorldInserts == 2

\* The trees and the queries of the run with a searching thread.
ConcMaxEntriesArgs == {2, 3}
ConcCenters == {[lat |-> 0, lon |-> 0]}
ConcRadii == {112000, 160000}

VARIABLES
    max_entries,   \* RTree.max_entries
    min_entries,   \* RTree.min_entries
    root,          \* RTree.root: a node reference, 0 before the tree is constructed
    nodes,         \* the RTreeNode objects ever created, by reference
    points,        \* the Point objects inserted so far, in insertion order
    lastOp,        \* the last call made on the tree and what it returned
    pc,            \* the statement an insert run statement by statement is at
    ins,           \* the locals of that insert and a record of its calls
    srch           \* the position of a search that is run statement by statement

vars == <<max_entries, min_entries, root, nodes, points, lastOp, pc, ins, srch>>

\* ------------------------------------------------------------- geometry
None == [none |-> TRUE]

Min2(a, b) == IF a <= b THEN a ELSE b
Max2(a, b) == IF a >= b THEN a ELSE b

MBR(min_lat, max_lat, min_lon, max_lon) ==
    [min_lat |-> min_lat, max_lat |-> max_lat, min_lon |-> min_lon, max_lon |-> max_lon]

area(m) == (m.max_lat - m.min_lat) * (m.max_lon - m.min_lon)

contains_point(m, p) ==
    /\ m.min_lat <= p.lat /\ p.lat <= m.max_lat
    /\ m.min_lon <= p.lon /\ p.lon <= m.max_lon

expand_to_include(m, point) ==
    MBR(Min2(m.min_lat, point.lat), Max2(m.max_lat, point.lat),
        Min2(m.min_lon, point.lon), Max2(m.max_lon, point.lon))

\* expand_to_include_mbr keeping self.min_lat.
expand_to_include_mbr_left(m, other) ==
    MBR(m.min_lat, Max2(m.max_lat, other.max_lat),
        Min2(m.min_lon, other.min_lon), Max2(m.max_lon, other.max_lon))

\* expand_to_include_mbr with min and max exchanged: the common part.
expand_to_include_mbr_meet(m, other) ==
    MBR(Max2(m.min_lat, other.min_lat), Min2(m.max_lat, other.max_lat),
        Max2(m.min_lon, other.min_lon), Min2(m.max_lon, other.max_lon))

expand_to_include_mbr(m, other) ==
    MBR(Min2(m.min_lat, other.min_lat), Max2(m.max_lat, other.max_lat),
        Min2(m.min_lon, other.min_lon), Max2(m.max_lon, other.max_lon))

from_point(p) == MBR(p.lat, p.lat, p.lon, p.lon)

\* intersects_square with `<=` and `>=`: touching edges do not intersect.
intersects_square_open(m, center_lat, center_lon, half_side_lat, half_side_lon) ==
    /\ ~(m.max_lat <= center_lat - half_side_lat)
    /\ ~(m.min_lat >= center_lat + half_side_lat)
    /\ ~(m.max_lon <= center_lon - half_side_lon)
    /\ ~(m.min_lon >= center_lon + half_side_lon)

\* The query square is center +/- half side.  With whole-degree coordinates,
\* c - h <= x and x <= c + h hold for a real h exactly when they hold for
\* floor(h), which is what the half sides below carry.
intersects_square(m, center_lat, center_lon, half_side_lat, half_side_lon) ==
    LET square_min_lat == center_lat - half_side_lat
        square_max_lat == center_lat + half_side_lat
        square_min_lon == center_lon - half_side_lon
        square_max_lon == center_lon + half_side_lon
    IN  IF m.max_lat < square_min_lat THEN FALSE
        ELSE IF m.min_lat > square_max_lat THEN FALSE
        ELSE IF m.max_lon < square_min_lon THEN FALSE
        ELSE IF m.min_lon > square_max_lon THEN FALSE
        ELSE TRUE

\* math.cos(math.radians(lat)) * 10^6, rounded, for the latitudes of the grid.
cos_e6(lat) == CASE lat = 0 -> 1000000
                 [] lat = 1 -> 999848
                 [] lat = 2 -> 999391
                 [] lat = 60 -> 500000
                 [] lat = 66 -> 406737

\* Point.distance_to on the grid, in metres (rounded): the values the source
\* computes for whole-degree points, which depend on the two latitudes and on
\* the size of the longitude difference.  Equal floats give equal metres and
\* different floats different metres on this grid.
Haversine(lat1, lat2, dlon) ==
    LET lo == Min2(lat1, lat2)
        hi == Max2(lat1, lat2)
    IN  CASE hi - lo = 0 /\ dlon = 0 -> 0
          [] hi - lo = 1 /\ dlon = 0 -> 111195
          [] hi - lo = 2 /\ dlon = 0 -> 222390
          [] lo = 0 /\ hi = 0 /\ dlon = 1 -> 111195
          [] lo = 0 /\ hi = 0 /\ dlon = 2 -> 222390
          [] lo = 1 /\ hi = 1 /\ dlon = 1 -> 111178
          [] lo = 1 /\ hi = 1 /\ dlon = 2 -> 222356
          [] lo = 2 /\ hi = 2 /\ dlon = 1 -> 111127
          [] lo = 2 /\ hi = 2 /\ dlon = 2 -> 222254
          [] lo = 0 /\ hi = 1 /\ dlon = 1 -> 157249
          [] lo = 0 /\ hi = 1 /\ dlon = 2 -> 248629
          [] lo = 1 /\ hi = 2 /\ dlon = 1 -> 157225
          [] lo = 1 /\ hi = 2 /\ dlon = 2 -> 248569
          [] lo = 0 /\ hi = 2 /\ dlon = 1 -> 248629
          [] lo = 0 /\ hi = 2 /\ dlon = 2 -> 314475
          [] lo = 0 /\ hi = 0 /\ dlon = 359 -> 111195
          [] lo = 0 /\ hi = 60 /\ dlon = 179 -> 13342831
          [] lo = 0 /\ hi = 60 /\ dlon = 180 -> 13343391
          [] lo = 0 /\ hi = 66 /\ dlon = 142 -> 12086215
          [] lo = 0 /\ hi = 66 /\ dlon = 217 -> 12115303
          [] lo = 60 /\ hi = 66 /\ dlon = 37 -> 1949007

distance_to(p, other) ==
    Haversine(p.lat, other.lat,
              IF p.lon >= other.lon THEN p.lon - other.lon ELSE other.lon - p.lon)

\* linear_search.distance_km: the same formula with atan2 in place of asin; on
\* the grid Lats x Lons it returns the same floats as Point.distance_to.
distance_km(lat1, lon1, lat2, lon2) ==
    Haversine(lat1, lat2, IF lon1 >= lon2 THEN lon1 - lon2 ELSE lon2 - lon1)

\* ------------------------------------------------------------- nodes
\* RTreeNode.__init__ with the cached MBR started as MBR(0, 0, 0, 0), the way
\* MBR.from_points answers for no points, instead of None.
RTreeNode_zero_mbr(is_leaf, parent) ==
    [is_leaf |-> is_leaf, mbr |-> MBR(0, 0, 0, 0), entries |-> <<>>, parent |-> parent]

\* RTreeNode.__init__: no MBR, no entries.
RTreeNode(is_leaf, parent) ==
    [is_leaf |-> is_leaf, mbr |-> None, entries |-> <<>>, parent |-> parent]

\* An entry is the tuple (MBR, Point or RTreeNode); ref is the index of the
\* Point in `points` (leaf) or of the child in `nodes` (internal node), and
\* kind is the class of the object the tuple holds.
Entry(mbr, kind, ref) == [mbr |-> mbr, kind |-> kind, ref |-> ref]

RECURSIVE union_from(_, _, _)
union_from(entries, i, mbr) ==
    IF i > Len(entries) THEN mbr
    ELSE union_from(entries, i + 1, expand_to_include_mbr(mbr, entries[i].mbr))

\* RTreeNode.update_mbr on node n of the arena ns.
update_mbr(ns, n) ==
    IF ns[n].entries = <<>>
    THEN [ns EXCEPT ![n].mbr = None]
    ELSE [ns EXCEPT ![n].mbr = union_from(ns[n].entries, 2, ns[n].entries[1].mbr)]

\* ------------------------------------------------------------- insertion
\* entry_mbr.expand_to_include_mbr(mbr).area() - entry_mbr.area()
enlargement_of(entry_mbr, mbr) == area(expand_to_include_mbr(entry_mbr, mbr)) - area(entry_mbr)

\* choose_leaf_step with `<=` for `<` on the enlargement: among entries of
\* equal enlargement the last one is taken.
choose_leaf_step_last(st, entry, enlargement) ==
    IF \/ st.best_entry = 0
       \/ enlargement <= st.min_enlargement
    THEN [best_entry |-> entry.ref,
          min_enlargement |-> enlargement,
          min_area |-> area(entry.mbr)]
    ELSE st

\* One turn of the loop of _choose_leaf: st carries best_entry (0 while it is
\* None and the two minima are still float('inf')), min_enlargement, min_area.
choose_leaf_step(st, entry, enlargement) ==
    IF \/ st.best_entry = 0
       \/ enlargement < st.min_enlargement
       \/ (enlargement = st.min_enlargement /\ area(entry.mbr) < st.min_area)
    THEN [best_entry |-> entry.ref,
          min_enlargement |-> enlargement,
          min_area |-> area(entry.mbr)]
    ELSE st

RECURSIVE choose_leaf_scan(_, _, _, _)
choose_leaf_scan(entries, mbr, i, st) ==
    IF i > Len(entries) THEN st
    ELSE choose_leaf_scan(entries, mbr, i + 1,
             choose_leaf_step(st, entries[i], enlargement_of(entries[i].mbr, mbr)))

\* RTree._choose_leaf: the leaf the descent from `node` ends in (0: the descent
\* reached an internal node without entries and dereferences None).
RECURSIVE choose_leaf(_, _, _)
choose_leaf(ns, node, mbr) ==
    IF node = 0 THEN 0
    ELSE IF ns[node].is_leaf THEN node
    ELSE choose_leaf(ns,
             choose_leaf_scan(ns[node].entries, mbr, 1,
                 [best_entry |-> 0, min_enlargement |-> 0, min_area |-> 0]).best_entry,
             mbr)

\* min(mbr.<f> for mbr, _ in entries) and max(...), f one of the four fields.
MinOver(entries, f) ==
    CHOOSE v \in {entries[i].mbr[f] : i \in 1..Len(entries)} :
        \A j \in 1..Len(entries) : v <= entries[j].mbr[f]

MaxOver(entries, f) ==
    CHOOSE v \in {entries[i].mbr[f] : i \in 1..Len(entries)} :
        \A j \in 1..Len(entries) : v >= entries[j].mbr[f]

\* The index the loop `for i, (mbr, _) in enumerate(entries): if mbr.<f> == v:
\* seed = i` leaves in seed: the last one that matches.
LastIndex(entries, f, v) ==
    CHOOSE i \in 1..Len(entries) :
        /\ entries[i].mbr[f] = v
        /\ \A j \in 1..Len(entries) : entries[j].mbr[f] = v => j <= i

\* The `if width > 0:` block with `separation >= max_separation`: the later
\* dimension wins a tie.
pick_seeds_in_dim_ties(entries, st, lo, hi, min_of_max, max_of_min, width) ==
    IF /\ width > 0
       /\ \/ st.max_separation.den = 0
          \/ (max_of_min - min_of_max) * st.max_separation.den
               >= st.max_separation.num * width
    THEN [max_separation |-> [num |-> max_of_min - min_of_max, den |-> width],
          seed1_idx |-> LastIndex(entries, lo, max_of_min),
          seed2_idx |-> LastIndex(entries, hi, min_of_max)]
    ELSE st

\* The `if width > 0:` block of one dimension.  A separation is the fraction
\* num/den; den = 0 stands for -float('inf').
pick_seeds_in_dim(entries, st, lo, hi, min_of_max, max_of_min, width) ==
    IF /\ width > 0
       /\ \/ st.max_separation.den = 0
          \/ (max_of_min - min_of_max) * st.max_separation.den
               > st.max_separation.num * width
    THEN [max_separation |-> [num |-> max_of_min - min_of_max, den |-> width],
          seed1_idx |-> LastIndex(entries, lo, max_of_min),
          seed2_idx |-> LastIndex(entries, hi, min_of_max)]
    ELSE st

\* One turn of `for dim in ['lat', 'lon']`; lo and hi name the fields of dim.
pick_seeds_dim(entries, st, lo, hi) ==
    pick_seeds_in_dim(entries, st, lo, hi,
                      MinOver(entries, hi), MaxOver(entries, lo),
                      MaxOver(entries, hi) - MinOver(entries, lo))

\* _linear_pick_seeds returning the seeds without the final test.
distinct_seeds_unchecked(entries, st) == <<st.seed1_idx, st.seed2_idx>>

\* "Make sure the two seeds differ".
distinct_seeds(entries, st) ==
    IF st.seed1_idx = st.seed2_idx /\ Len(entries) > 1
    THEN <<st.seed1_idx, (st.seed1_idx % Len(entries)) + 1>>
    ELSE <<st.seed1_idx, st.seed2_idx>>

\* RTree._linear_pick_seeds: <<seed1_idx, seed2_idx>>, 1-based.
linear_pick_seeds(entries) ==
    distinct_seeds(entries,
        pick_seeds_dim(entries,
            pick_seeds_dim(entries,
                [max_separation |-> [num |-> 0, den |-> 0],
                 seed1_idx |-> 1,
                 seed2_idx |-> IF Len(entries) > 1 THEN 2 ELSE 1],
                "min_lat", "max_lat"),
            "min_lon", "max_lon"))

\* _split_node without `data.parent = target_node`.
set_parent_kept(ns, is_leaf, child, parent) == ns

\* data.parent = target: only the children of an internal node are re-pointed.
set_parent(ns, is_leaf, child, parent) ==
    IF is_leaf THEN ns ELSE [ns EXCEPT ![child].parent = parent]

\* The choice of target_node with `<` for `<=` on the entry counts.
split_target_count_strict(node1, node2, mbr1, mbr2, len1, len2, enlargement1, enlargement2) ==
    IF enlargement1 < enlargement2 THEN node1
    ELSE IF enlargement2 < enlargement1 THEN node2
    ELSE IF area(mbr1) < area(mbr2) THEN node1
    ELSE IF area(mbr2) < area(mbr1) THEN node2
    ELSE IF len1 < len2 THEN node1
    ELSE node2

\* The choice of target_node without the test on the entry counts: node1 on
\* equal enlargement and equal area.
split_target_first_on_ties(node1, node2, mbr1, mbr2, len1, len2, enlargement1, enlargement2) ==
    IF enlargement1 < enlargement2 THEN node1
    ELSE IF enlargement2 < enlargement1 THEN node2
    ELSE IF area(mbr1) < area(mbr2) THEN node1
    ELSE IF area(mbr2) < area(mbr1) THEN node2
    ELSE node1

\* The choice of target_node for an entry with MBR `mbr`, the two new nodes
\* having cached MBRs mbr1, mbr2 and len1, len2 entries.
split_target(node1, node2, mbr1, mbr2, len1, len2, enlargement1, enlargement2) ==
    IF enlargement1 < enlargement2 THEN node1
    ELSE IF enlargement2 < enlargement1 THEN node2
    ELSE IF area(mbr1) < area(mbr2) THEN node1
    ELSE IF area(mbr2) < area(mbr1) THEN node2
    ELSE IF len1 <= len2 THEN node1
    ELSE node2

\* target_node.entries.append(entry), and the parent pointer of the child.
split_assign(ns, is_leaf, entry, target_node) ==
    set_parent([ns EXCEPT ![target_node].entries = Append(@, entry)],
               is_leaf, entry.ref, target_node)

\* One turn of the distribution loop, ns having both cached MBRs updated.
split_place(ns, is_leaf, node1, node2, entry) ==
    split_assign(ns, is_leaf, entry,
        split_target(node1, node2, ns[node1].mbr, ns[node2].mbr,
                     Len(ns[node1].entries), Len(ns[node2].entries),
                     enlargement_of(ns[node1].mbr, entry.mbr),
                     enlargement_of(ns[node2].mbr, entry.mbr)))

\* The distribution loop of _split_node over remaining[i..].
RECURSIVE split_distribute(_, _, _, _, _, _)
split_distribute(ns, is_leaf, node1, node2, remaining, i) ==
    IF i > Len(remaining) THEN ns
    ELSE split_distribute(
             split_place(update_mbr(update_mbr(ns, node1), node2),
                         is_leaf, node1, node2, remaining[i]),
             is_leaf, node1, node2, remaining, i + 1)

\* [e for i, e in enumerate(entries) if i != seed1_idx and i != seed2_idx], from i on.
RECURSIVE remaining_from(_, _, _, _)
remaining_from(entries, seed1_idx, seed2_idx, i) ==
    IF i > Len(entries) THEN <<>>
    ELSE IF i # seed1_idx /\ i # seed2_idx
         THEN <<entries[i]>> \o remaining_from(entries, seed1_idx, seed2_idx, i + 1)
         ELSE remaining_from(entries, seed1_idx, seed2_idx, i + 1)

\* _split_node after the seeds are picked: node1 and node2 are created with
\* the parent of the split node and one seed each, the seeds' children are
\* re-pointed, the rest is distributed and both MBRs are updated.
split_with_seeds(ns, node, entries, is_leaf, seed1_idx, seed2_idx, node1, node2) ==
    update_mbr(
        update_mbr(
            split_distribute(
                set_parent(
                    set_parent(
                        ns \o << [RTreeNode(is_leaf, ns[node].parent)
                                     EXCEPT !.entries = <<entries[seed1_idx]>>],
                                 [RTreeNode(is_leaf, ns[node].parent)
                                     EXCEPT !.entries = <<entries[seed2_idx]>>] >>,
                        is_leaf, entries[seed1_idx].ref, node1),
                    is_leaf, entries[seed2_idx].ref, node2),
                is_leaf, node1, node2,
                remaining_from(entries, seed1_idx, seed2_idx, 1), 1),
            node1),
        node2)

split_seeded(ns, node, seeds) ==
    [nodes |-> split_with_seeds(ns, node, ns[node].entries, ns[node].is_leaf,
                                seeds[1], seeds[2], Len(ns) + 1, Len(ns) + 2),
     node1 |-> Len(ns) + 1,
     node2 |-> Len(ns) + 2]

\* RTree._split_node: the arena with the two new nodes, and their references.
\* The split node stays in the arena, unreferenced.
split_node(ns, node) == split_seeded(ns, node, linear_pick_seeds(ns[node].entries))

\* parent.entries without the entries whose child is `node`.
RECURSIVE without_child(_, _)
without_child(entries, node) ==
    IF entries = <<>> THEN <<>>
    ELSE IF Head(entries).ref # node
         THEN <<Head(entries)>> \o without_child(Tail(entries), node)
         ELSE without_child(Tail(entries), node)

\* The root branch without node1.parent = new_root, node2.parent = new_root.
new_root_over_orphans(ns, node1, node2, new_root) ==
    [nodes |-> update_mbr(
                   Append(ns, [RTreeNode(FALSE, 0) EXCEPT !.entries =
                                  <<Entry(ns[node1].mbr, "RTreeNode", node1),
                                    Entry(ns[node2].mbr, "RTreeNode", node2)>>]),
                   new_root),
     root |-> new_root]

\* The root branch with RTreeNode(is_leaf=True) for the new root.
new_root_over_leaf(ns, node1, node2, new_root) ==
    [nodes |-> [update_mbr(
                    Append(ns, [RTreeNode(TRUE, 0) EXCEPT !.entries =
                                   <<Entry(ns[node1].mbr, "RTreeNode", node1),
                                     Entry(ns[node2].mbr, "RTreeNode", node2)>>]),
                    new_root)
                EXCEPT ![node1].parent = new_root, ![node2].parent = new_root],
     root |-> new_root]

\* The root branch of _handle_overflow: a new internal root over the halves.
new_root_over(ns, node1, node2, new_root) ==
    [nodes |-> [update_mbr(
                    Append(ns, [RTreeNode(FALSE, 0) EXCEPT !.entries =
                                   <<Entry(ns[node1].mbr, "RTreeNode", node1), Entry(ns[node2].mbr, "RTreeNode", node2)>>]),
                    new_root)
                EXCEPT ![node1].parent = new_root, ![node2].parent = new_root],
     root |-> new_root]

\* replace_in_parent working one level too high: the halves are appended to
\* the parent's parent when there is one.
replace_in_parent_above(ns, node, parent, node1, node2) ==
    update_mbr([ns EXCEPT ![IF ns[parent].parent # 0 THEN ns[parent].parent ELSE parent].entries =
                   without_child(@, node)
                   \o <<Entry(ns[node1].mbr, "RTreeNode", node1), Entry(ns[node2].mbr, "RTreeNode", node2)>>],
               IF ns[parent].parent # 0 THEN ns[parent].parent ELSE parent)

\* The other branch: the parent's entry of the split node is replaced by the
\* two halves' entries, appended, and the parent's MBR is updated.
replace_in_parent(ns, node, parent, node1, node2) ==
    update_mbr([ns EXCEPT ![parent].entries =
                   without_child(@, node)
                   \o <<Entry(ns[node1].mbr, "RTreeNode", node1), Entry(ns[node2].mbr, "RTreeNode", node2)>>],
               parent)

\* RTree._handle_overflow on the tree t = [nodes, root], for max_entries m.
RECURSIVE handle_overflow(_, _, _)
RECURSIVE overflow_split(_, _, _, _)
RECURSIVE overflow_parent(_, _, _, _)
handle_overflow(t, m, node) == overflow_split(t, m, node, split_node(t.nodes, node))

overflow_split(t, m, node, sp) ==
    IF sp.nodes[node].parent = 0
    THEN new_root_over(sp.nodes, sp.node1, sp.node2, Len(sp.nodes) + 1)
    ELSE overflow_parent(t.root, m, sp.nodes[node].parent,
             replace_in_parent(sp.nodes, node, sp.nodes[node].parent, sp.node1, sp.node2))

\* The overflow test as `len(entries) > 0`: every node that receives an entry
\* is split.
overflow_parent_any(r, m, parent, ns) ==
    IF Len(ns[parent].entries) > 0
    THEN handle_overflow([nodes |-> ns, root |-> r], m, parent)
    ELSE [nodes |-> ns, root |-> r]

overflow_parent(r, m, parent, ns) ==
    IF Len(ns[parent].entries) > m
    THEN handle_overflow([nodes |-> ns, root |-> r], m, parent)
    ELSE [nodes |-> ns, root |-> r]

\* insert without leaf.update_mbr().
insert_into_no_update(t, m, leaf, mbr, pid) ==
    overflow_parent(t.root, m, leaf,
        [t.nodes EXCEPT ![leaf].entries = Append(@, Entry(mbr, "Point", pid))])

\* leaf.entries.append((mbr, point)); leaf.update_mbr(); the overflow test.
insert_into(t, m, leaf, mbr, pid) ==
    overflow_parent(t.root, m, leaf,
        update_mbr([t.nodes EXCEPT ![leaf].entries = Append(@, Entry(mbr, "Point", pid))], leaf))

\* RTree.insert of the Point object `pid` (points[pid] = point) into tree t.
insert(t, m, point, pid) ==
    insert_into(t, m, choose_leaf(t.nodes, t.root, from_point(point)), from_point(point), pid)

\* ------------------------------------------------------------- search
\* RTree._search_square_recursive: what the call appends to `results`, in
\* order.  A candidate is the tuple (point, distance); node and idx record the
\* leaf entry it was read from.
RECURSIVE search_square_recursive(_, _, _, _, _, _, _)
search_square_recursive(ns, node, center_lat, center_lon, half_side_lat, half_side_lon, center_point) ==
    IF node = 0 \/ ns[node].mbr = None THEN <<>>
    ELSE IF ~intersects_square(ns[node].mbr, center_lat, center_lon,
                               half_side_lat, half_side_lon) THEN <<>>
    ELSE LET entries == ns[node].entries
             square_min_lat == center_lat - half_side_lat
             square_max_lat == center_lat + half_side_lat
             square_min_lon == center_lon - half_side_lon
             square_max_lon == center_lon + half_side_lon
             RECURSIVE leaf_from(_)
             leaf_from(i) ==
                 IF i > Len(entries) THEN <<>>
                 ELSE LET point == points[entries[i].ref]
                      IN  IF /\ square_min_lat <= point.lat /\ point.lat <= square_max_lat
                             /\ square_min_lon <= point.lon /\ point.lon <= square_max_lon
                          THEN << [point |-> entries[i].ref,
                                   distance |-> distance_to(center_point, point),
                                   node |-> node, idx |-> i] >> \o leaf_from(i + 1)
                          ELSE leaf_from(i + 1)
             RECURSIVE children_from(_)
             children_from(i) ==
                 IF i > Len(entries) THEN <<>>
                 ELSE search_square_recursive(ns, entries[i].ref, center_lat, center_lon,
                                              half_side_lat, half_side_lon, center_point)
                      \o children_from(i + 1)
         IN  IF ns[node].is_leaf THEN leaf_from(1) ELSE children_from(1)

\* list.sort(key=lambda x: x[1]): stable, ascending by distance.
RECURSIVE sort_by_distance(_)
sort_by_distance(s) ==
    IF s = <<>> THEN <<>>
    ELSE LET sorted == sort_by_distance(SubSeq(s, 1, Len(s) - 1))
             x == s[Len(s)]
             k == Cardinality({i \in 1..Len(sorted) : sorted[i].distance <= x.distance})
         IN  SubSeq(sorted, 1, k) \o <<x>> \o SubSeq(sorted, k + 1, Len(sorted))

\* Step 2 of search_square left out: every candidate of the square is returned.
within_radius_unfiltered(candidates, radius) == candidates

RECURSIVE within_radius(_, _)
within_radius(candidates, radius) ==
    IF candidates = <<>> THEN <<>>
    ELSE IF Head(candidates).distance <= radius
         THEN <<Head(candidates)>> \o within_radius(Tail(candidates), radius)
         ELSE within_radius(Tail(candidates), radius)

\* radius_km / 111.0, in degrees, rounded down (radius in metres).
half_side_lat_of(radius) == radius \div 111000

\* radius_km / (111.0 * math.cos(math.radians(center.lat))), in degrees, rounded down.
half_side_lon_of(radius, center) == (radius * 1000) \div (111 * cos_e6(center.lat))

\* The candidates RTree.search_square collects in step 1.
square_candidates(ns, r, center, radius) ==
    search_square_recursive(ns, r, center.lat, center.lon,
                            half_side_lat_of(radius), half_side_lon_of(radius, center),
                            center)

\* RTree.search_square: the list of (point, distance) it returns.
search_square(ns, r, center, radius) ==
    sort_by_distance(within_radius(square_candidates(ns, r, center, radius), radius))

\* The loop of linear_search.main over the loaded items, in their order.
RECURSIVE linear_scan(_, _, _, _, _)
linear_scan(data, i, lat, lon, r) ==
    IF i > Len(data) THEN <<>>
    ELSE LET distance == distance_km(lat, lon, data[i].lat, data[i].lon)
         IN  IF distance <= r
             THEN << [point |-> i, distance |-> distance] >> \o linear_scan(data, i + 1, lat, lon, r)
             ELSE linear_scan(data, i + 1, lat, lon, r)

linear_search(data, lat, lon, r) == sort_by_distance(linear_scan(data, 1, lat, lon, r))

\* ------------------------------------------------------------- diagnostics
\* RTree._count_recursive, as the counts it adds.
RECURSIVE count_recursive(_, _)
count_recursive(ns, node) ==
    IF ns[node].is_leaf
    THEN [leaf |-> 1, internal |-> 0, total_entries |-> Len(ns[node].entries)]
    ELSE LET entries == ns[node].entries
             RECURSIVE sum_from(_)
             sum_from(i) ==
                 IF i > Len(entries)
                 THEN [leaf |-> 0, internal |-> 0, total_entries |-> 0]
                 ELSE LET a == count_recursive(ns, entries[i].ref)
                          b == sum_from(i + 1)
                      IN  [leaf |-> a.leaf + b.leaf,
                           internal |-> a.internal + b.internal,
                           total_entries |-> a.total_entries + b.total_entries]
             below == sum_from(1)
         IN  [below EXCEPT !.internal = @ + 1]

count_nodes(ns, r) == count_recursive(ns, r)

RECURSIVE get_height_recursive(_, _)
get_height_recursive(ns, node) ==
    IF ns[node].is_leaf THEN 1
    ELSE IF ns[node].entries = <<>> THEN 1
    ELSE LET H == {get_height_recursive(ns, ns[node].entries[i].ref) :
                      i \in 1..Len(ns[node].entries)}
         IN  1 + (CHOOSE h \in H : \A g \in H : g <= h)

\* The height counted in edges, not in nodes.
get_height_in_edges(ns, r) == get_height_recursive(ns, r) - 1

get_height(ns, r) == get_height_recursive(ns, r)

\* ------------------------------------------------------------- the program
\* The locals of insert and _handle_overflow before the first call.  leaf, point, before and handled are a record of
\* the last stepped insert: the chosen leaf, the Point object, the tree before
\* the call and the nodes passed to _handle_overflow, in order.
InsIdle ==
    [node |-> 0, node1 |-> 0, node2 |-> 0, leaf |-> 0, point |-> 0,
     before |-> [nodes |-> <<>>, root |-> 0], handled |-> <<>>]

\* No search is being stepped.  pending is the node of a call of
\* _search_square_recursive that has not run yet, stack the for-loops of the
\* calls under way on internal nodes and results the list they fill; torn and
\* expected are a record of what the search has run alongside.
SrchIdle ==
    [pc |-> "idle", center |-> [lat |-> 0, lon |-> 0], radius |-> 0, pending |-> 0,
     stack |-> <<>>, results |-> <<>>, ret |-> <<>>, torn |-> FALSE, expected |-> {}]

Strip(cands) == [i \in 1..Len(cands) |-> [point |-> cands[i].point, distance |-> cands[i].distance]]

Init ==
    /\ max_entries = 0
    /\ min_entries = 0
    /\ root = 0
    /\ nodes = <<>>
    /\ points = <<>>
    /\ lastOp = [op |-> "none"]
    /\ pc = "idle"
    /\ ins = InsIdle
    /\ srch = SrchIdle

\* Every call runs to completion before the caller makes the next one: a call
\* is made when no return value is pending, and Return is the caller taking it.
Idle == lastOp.op = "none"

\* RTree(max_entries=args.max_entries)
RTreeInit(m) ==
    /\ Idle
    /\ root = 0
    /\ max_entries' = m
    /\ min_entries' = Max2(2, m \div 2)
    /\ nodes' = <<RTreeNode(TRUE, 0)>>
    /\ root' = 1
    /\ lastOp' = [op |-> "init"]
    /\ UNCHANGED points
    /\ UNCHANGED <<pc, ins, srch>>

\* rtree.insert(Point(lat, lon, item)), for a file of at most `limit` items.
InsertBounded(point, limit) ==
    /\ Idle
    /\ root # 0
    /\ Len(points) < limit
    /\ LET t == insert([nodes |-> nodes, root |-> root], max_entries, point, Len(points) + 1)
       IN  /\ nodes' = t.nodes
           /\ root' = t.root
    /\ points' = Append(points, point)
    /\ lastOp' = [op |-> "insert", point |-> Len(points) + 1]
    /\ UNCHANGED <<max_entries, min_entries>>
    /\ UNCHANGED <<pc, ins, srch>>

Insert(point) == InsertBounded(point, MaxInserts)

\* A search that stores the root's cached MBR grown over the query center
\* before it descends.
Search_expanding(center, radius) ==
    /\ Idle
    /\ root # 0
    /\ lastOp' = [op |-> "search", center |-> center, radius |-> radius,
                  candidates |-> square_candidates(nodes, root, center, radius),
                  ret |-> Strip(search_square(nodes, root, center, radius))]
    /\ nodes' = [nodes EXCEPT ![root].mbr =
                    IF @ = None THEN from_point(center)
                    ELSE expand_to_include_mbr(@, from_point(center))]
    /\ UNCHANGED <<max_entries, min_entries, root, points>>
    /\ UNCHANGED <<pc, ins, srch>>

\* rtree.search_square(Point(lat, lon, {}), radius)
Search(center, radius) ==
    /\ Idle
    /\ root # 0
    /\ lastOp' = [op |-> "search", center |-> center, radius |-> radius,
                  candidates |-> square_candidates(nodes, root, center, radius),
                  ret |-> Strip(search_square(nodes, root, center, radius))]
    /\ UNCHANGED <<max_entries, min_entries, root, nodes, points, pc, ins, srch>>

\* rtree.count_nodes()
CountNodes ==
    /\ Idle
    /\ root # 0
    /\ lastOp' = [op |-> "count_nodes", ret |-> count_nodes(nodes, root)]
    /\ UNCHANGED <<max_entries, min_entries, root, nodes, points, pc, ins, srch>>

\* rtree.get_height()
GetHeight ==
    /\ Idle
    /\ root # 0
    /\ lastOp' = [op |-> "get_height", ret |-> get_height(nodes, root)]
    /\ UNCHANGED <<max_entries, min_entries, root, nodes, points, pc, ins, srch>>

\* The caller takes the return value and goes on.
Return ==
    /\ ~Idle
    /\ lastOp' = [op |-> "none"]
    /\ UNCHANGED <<max_entries, min_entries, root, nodes, points, pc, ins, srch>>

Next ==
    \/ \E m \in MaxEntriesArgs : RTreeInit(m)
    \/ \E point \in Coords : Insert(point)
    \/ \E center \in Coords, radius \in Radii : Search(center, radius)
    \/ CountNodes
    \/ GetHeight
    \/ Return

Spec == Init /\ [][Next]_vars

\* The program loading a longer file and reporting the height, no search.
NextDeep ==
    \/ \E m \in DeepMaxEntriesArgs : RTreeInit(m)
    \/ \E point \in Coords : InsertBounded(point, MaxDeepInserts)
    \/ GetHeight
    \/ Return

SpecDeep == Init /\ [][NextDeep]_vars

\* The program loading a file of items of the wider grid and counting the nodes.
NextWide ==
    \/ \E m \in DeepMaxEntriesArgs : RTreeInit(m)
    \/ \E point \in WideCoords : InsertBounded(point, MaxInserts)
    \/ CountNodes
    \/ Return

SpecWide == Init /\ [][NextWide]_vars

\* The program loading stations from around the world and answering queries.
NextWorld ==
    \/ \E m \in DeepMaxEntriesArgs : RTreeInit(m)
    \/ \E point \in WorldCoords : InsertBounded(point, MaxWorldInserts)
    \/ \E center \in WorldCoords, radius \in WorldRadii : Search(center, radius)
    \/ Return

SpecWorld == Init /\ [][NextWorld]_vars

\* ------------------------------------------- insert, statement by statement
\* _handle_overflow(node) going on with node's own reference.
overflow_next_same(ns, node) == node

\* parent = node.parent, the node of the recursive call _handle_overflow(parent).
overflow_next(ns, node) == ns[node].parent

\* `parent.entries = new_entries` as a change of the list in place: the loops
\* under way on the parent go on over the changed list.
rebind_in_place(stack, parent, old) == stack

\* A for-loop over parent.entries keeps the list object it was started on:
\* after `parent.entries = new_entries` the loops on the parent run on the old
\* list, which no statement changes any more.
rebind(stack, parent, old) ==
    [k \in 1..Len(stack) |->
        IF stack[k].node = parent /\ stack[k].live
        THEN [stack[k] EXCEPT !.live = FALSE, !.list = old]
        ELSE stack[k]]

\* The Point objects a query returns on the tree t.
ReturnedBy(t, center, radius) ==
    {c.point : c \in {search_square(t.nodes, t.root, center, radius)[k] :
                        k \in 1..Len(search_square(t.nodes, t.root, center, radius))}}

\* The record of a search in progress when an insert has returned with tree t.
Alongside(s, t) ==
    IF s.pc = "run"
    THEN [s EXCEPT !.expected = @ \cap ReturnedBy(t, s.center, s.radius)]
    ELSE s

\* insert returns: the caller has its return value pending.
InsReturns(ns, r) ==
    /\ pc' = "idle"
    /\ lastOp' = [op |-> "insert", point |-> ins.point]
    /\ srch' = Alongside(srch, [nodes |-> ns, root |-> r])

\* mbr = MBR.from_point(point); leaf = self._choose_leaf(self.root, mbr);
\* leaf.entries.append((mbr, point))
InsAppend(point, limit) ==
    /\ pc = "idle"
    /\ Idle
    /\ root # 0
    /\ Len(points) < limit
    /\ nodes' = [nodes EXCEPT ![choose_leaf(nodes, root, from_point(point))].entries =
                    Append(@, Entry(from_point(point), "Point", Len(points) + 1))]
    /\ points' = Append(points, point)
    /\ pc' = "update_mbr"
    /\ ins' = [node |-> choose_leaf(nodes, root, from_point(point)),
               node1 |-> 0, node2 |-> 0,
               leaf |-> choose_leaf(nodes, root, from_point(point)),
               point |-> Len(points) + 1,
               before |-> [nodes |-> nodes, root |-> root], handled |-> <<>>]
    /\ UNCHANGED <<max_entries, min_entries, root, lastOp, srch>>

\* leaf.update_mbr(); if len(leaf.entries) > self.max_entries: ...
InsUpdateMbr ==
    /\ pc = "update_mbr"
    /\ nodes' = update_mbr(nodes, ins.node)
    /\ IF Len(nodes[ins.node].entries) > max_entries
       THEN /\ pc' = "split"
            /\ UNCHANGED <<lastOp, srch>>
       ELSE InsReturns(nodes', root)
    /\ UNCHANGED <<max_entries, min_entries, root, points, ins>>

\* node1, node2 = self._split_node(node); if node.parent is None: ...
InsSplit ==
    /\ pc = "split"
    /\ nodes' = split_node(nodes, ins.node).nodes
    /\ ins' = [ins EXCEPT !.node1 = split_node(nodes, ins.node).node1,
                          !.node2 = split_node(nodes, ins.node).node2,
                          !.handled = Append(@, ins.node)]
    /\ pc' = IF nodes[ins.node].parent = 0 THEN "new_root" ELSE "detach"
    /\ UNCHANGED <<max_entries, min_entries, root, points, lastOp, srch>>

\* The root branch, up to self.root = new_root.
InsNewRoot ==
    /\ pc = "new_root"
    /\ nodes' = new_root_over(nodes, ins.node1, ins.node2, Len(nodes) + 1).nodes
    /\ root' = new_root_over(nodes, ins.node1, ins.node2, Len(nodes) + 1).root
    /\ InsReturns(nodes', root')
    /\ UNCHANGED <<max_entries, min_entries, points, ins>>

\* parent.entries = new_entries, the parent's entries without the split node.
InsDetach ==
    /\ pc = "detach"
    /\ nodes' = [nodes EXCEPT ![nodes[ins.node].parent].entries = without_child(@, ins.node)]
    /\ srch' = [srch EXCEPT !.stack = rebind(@, nodes[ins.node].parent,
                                             nodes[nodes[ins.node].parent].entries)]
    /\ pc' = "attach1"
    /\ UNCHANGED <<max_entries, min_entries, root, points, lastOp, ins>>

\* parent.entries.append((node1.mbr, node1))
InsAttach1 ==
    /\ pc = "attach1"
    /\ nodes' = [nodes EXCEPT ![nodes[ins.node].parent].entries =
                    Append(@, Entry(nodes[ins.node1].mbr, "RTreeNode", ins.node1))]
    /\ pc' = "attach2"
    /\ UNCHANGED <<max_entries, min_entries, root, points, lastOp, ins, srch>>

\* parent.entries.append((node2.mbr, node2))
InsAttach2 ==
    /\ pc = "attach2"
    /\ nodes' = [nodes EXCEPT ![nodes[ins.node].parent].entries =
                    Append(@, Entry(nodes[ins.node2].mbr, "RTreeNode", ins.node2))]
    /\ pc' = "parent_mbr"
    /\ UNCHANGED <<max_entries, min_entries, root, points, lastOp, ins, srch>>

\* parent.update_mbr(); if len(parent.entries) > self.max_entries:
\* self._handle_overflow(parent)
InsParentMbr ==
    /\ pc = "parent_mbr"
    /\ nodes' = update_mbr(nodes, nodes[ins.node].parent)
    /\ IF Len(nodes[nodes[ins.node].parent].entries) > max_entries
       THEN /\ pc' = "split"
            /\ ins' = [ins EXCEPT !.node = overflow_next(nodes, ins.node)]
            /\ UNCHANGED <<lastOp, srch>>
       ELSE InsReturns(nodes', root) /\ UNCHANGED ins
    /\ UNCHANGED <<max_entries, min_entries, root, points>>

\* The positions of an insert: "idle" between calls, otherwise the statement
\* it runs next.
InsPcs == {"idle", "update_mbr", "split", "new_root", "detach", "attach1", "attach2", "parent_mbr"}

\* The thread inside insert goes on to another statement.  These are the
\* steps InsUpdateMbr ... InsParentMbr below, each of which moves pc.
InsScheduled == pc # "idle" /\ pc' \in InsPcs

\* The program loading a file, each insert one statement at a time.  insert
\* runs on the calling thread without suspension points, so a call under way
\* does go on to its next statement: weak fairness on the steps that move pc.
NextSteps ==
    \/ \E m \in MaxEntriesArgs : RTreeInit(m)
    \/ \E point \in Coords : InsAppend(point, MaxInserts)
    \/ InsUpdateMbr
    \/ InsSplit
    \/ InsNewRoot
    \/ InsDetach
    \/ InsAttach1
    \/ InsAttach2
    \/ InsParentMbr
    \/ Return

SpecSteps == Init /\ [][NextSteps]_vars /\ WF_pc(InsScheduled)

\* ------------------------------------------- search, statement by statement
\* The for-loop going on to its next entry.
loop_next(idx) == idx + 1

\* The list a for-loop runs on: the node's entries as they are now, or the
\* list object the node had when the loop began if the node's entries have
\* been rebound since.
loop_list(f) == IF f.live THEN nodes[f.node].entries ELSE f.list

\* The loop f ends while _handle_overflow is between `parent.entries =
\* new_entries` and the second append, on the list that misses a half.
EndsTorn(f) ==
    /\ f.live
    /\ pc \in {"attach1", "attach2"}
    /\ nodes[ins.node].parent = f.node

\* search_square up to the first call of _search_square_recursive, on the
\* root.  expected starts as what the query returns on the tree as it was
\* before the insert under way, if there is one.
SearchBegin(center, radius) ==
    /\ srch.pc = "idle"
    /\ root # 0
    /\ srch' = [pc |-> "run", center |-> center, radius |-> radius, pending |-> root,
                stack |-> <<>>, results |-> <<>>, ret |-> <<>>, torn |-> FALSE,
                expected |-> ReturnedBy(IF pc = "idle" THEN [nodes |-> nodes, root |-> root]
                                        ELSE ins.before, center, radius)]
    /\ UNCHANGED <<max_entries, min_entries, root, nodes, points, lastOp, pc, ins>>

\* _search_square_recursive(node, ...) up to its for-loop: the two tests on
\* node.mbr, then the whole loop of a leaf, or the start of the loop of an
\* internal node.
SearchEnter ==
    /\ srch.pc = "run"
    /\ srch.pending # 0
    /\ IF \/ nodes[srch.pending].mbr = None
          \/ ~intersects_square(nodes[srch.pending].mbr, srch.center.lat, srch.center.lon,
                                half_side_lat_of(srch.radius),
                                half_side_lon_of(srch.radius, srch.center))
       THEN srch' = [srch EXCEPT !.pending = 0]
       ELSE IF nodes[srch.pending].is_leaf
       THEN srch' = [srch EXCEPT !.pending = 0,
                                 !.results = @ \o search_square_recursive(nodes, srch.pending,
                                                    srch.center.lat, srch.center.lon,
                                                    half_side_lat_of(srch.radius),
                                                    half_side_lon_of(srch.radius, srch.center),
                                                    srch.center)]
       ELSE srch' = [srch EXCEPT !.pending = 0,
                                 !.stack = Append(@, [node |-> srch.pending, idx |-> 0,
                                                      live |-> TRUE, list |-> <<>>])]
    /\ UNCHANGED <<max_entries, min_entries, root, nodes, points, lastOp, pc, ins>>

\* One turn of `for mbr, child_node in node.entries:` in the innermost call
\* on an internal node: the call on the next child, or the end of the loop.
SearchNext ==
    /\ srch.pc = "run"
    /\ srch.pending = 0
    /\ srch.stack # <<>>
    /\ IF srch.stack[Len(srch.stack)].idx < Len(loop_list(srch.stack[Len(srch.stack)]))
       THEN srch' = [srch EXCEPT
                        !.pending = loop_list(srch.stack[Len(srch.stack)])
                                        [srch.stack[Len(srch.stack)].idx + 1].ref,
                        !.stack[Len(srch.stack)].idx = loop_next(@)]
       ELSE srch' = [srch EXCEPT
                        !.stack = SubSeq(@, 1, Len(@) - 1),
                        !.torn = @ \/ EndsTorn(srch.stack[Len(srch.stack)])]
    /\ UNCHANGED <<max_entries, min_entries, root, nodes, points, lastOp, pc, ins>>

\* Steps 2 and 3 of search_square: the filter on the distance and the sort.
SearchFinish ==
    /\ srch.pc = "run"
    /\ srch.pending = 0
    /\ srch.stack = <<>>
    /\ srch' = [srch EXCEPT !.pc = "done",
                            !.ret = Strip(sort_by_distance(within_radius(srch.results, srch.radius)))]
    /\ UNCHANGED <<max_entries, min_entries, root, nodes, points, lastOp, pc, ins>>

\* The searching thread takes the list.
SearchReturn ==
    /\ srch.pc = "done"
    /\ srch' = SrchIdle
    /\ UNCHANGED <<max_entries, min_entries, root, nodes, points, lastOp, pc, ins>>

\* One thread loading items and another searching, with no lock: the
\* statements of the two run in any order.
NextConc ==
    \/ \E m \in ConcMaxEntriesArgs : RTreeInit(m)
    \/ \E point \in Coords : InsAppend(point, MaxInserts)
    \/ InsUpdateMbr
    \/ InsSplit
    \/ InsNewRoot
    \/ InsDetach
    \/ InsAttach1
    \/ InsAttach2
    \/ InsParentMbr
    \/ Return
    \/ \E center \in ConcCenters, radius \in ConcRadii : SearchBegin(center, radius)
    \/ SearchEnter
    \/ SearchNext
    \/ SearchFinish
    \/ SearchReturn

SpecConc == Init /\ [][NextConc]_vars

\* ------------------------------------------------------------- reading the tree
\* The nodes of the subtree of `node`, following the entries of internal nodes.
RECURSIVE Subtree(_, _)
Subtree(ns, node) ==
    IF ns[node].is_leaf THEN {node}
    ELSE {node} \cup UNION {Subtree(ns, ns[node].entries[i].ref) : i \in 1..Len(ns[node].entries)}

Reachable == IF root = 0 THEN {} ELSE Subtree(nodes, root)

\* The leaf entries <<leaf, index>> of the subtree of `node`.
LeafEntries(ns, node) ==
    UNION {{<<n, i>> : i \in 1..Len(ns[n].entries)} :
              n \in {l \in Subtree(ns, node) : ns[l].is_leaf}}

\* The depths from `node` (at depth d) of the leaves of its subtree.
RECURSIVE LeafDepths(_, _, _)
LeafDepths(ns, node, d) ==
    IF ns[node].is_leaf THEN {d}
    ELSE UNION {LeafDepths(ns, ns[node].entries[i].ref, d + 1) : i \in 1..Len(ns[node].entries)}

\* The smallest rectangle over the MBRs stored in a non-empty list of entries.
UnionOfEntries(entries) ==
    MBR(MinOver(entries, "min_lat"), MaxOver(entries, "max_lat"),
        MinOver(entries, "min_lon"), MaxOver(entries, "max_lon"))

Searched == lastOp.op = "search"

\* How often Point object p occurs in a result list.
Occurrences(ret, p) == Cardinality({k \in 1..Len(ret) : ret[k].point = p})

\* The Point objects a brute-force scan finds within the radius of the center.
WithinRadius(center, radius) ==
    {p \in 1..Len(points) : distance_to(center, points[p]) <= radius}

InSquare(center, radius, point) ==
    /\ center.lat - half_side_lat_of(radius) <= point.lat
    /\ point.lat <= center.lat + half_side_lat_of(radius)
    /\ center.lon - half_side_lon_of(radius, center) <= point.lon
    /\ point.lon <= center.lon + half_side_lon_of(radius, center)

\* Every node object ever created, and those no entry leads to any more: the
\* nodes that were handed to _split_node.
Arena == 1..Len(nodes)

SplitNodes == Arena \ Reachable

\* The entries <<n, i>> of reachable internal nodes whose child is `node`.
ParentEntries(node) ==
    UNION {{<<n, i>> : i \in {k \in 1..Len(nodes[n].entries) : nodes[n].entries[k].ref = node}} :
              n \in {m \in Reachable : ~nodes[m].is_leaf}}

\* The largest depth of a leaf below the root, the root being at depth 1.
MaxLeafDepth ==
    CHOOSE d \in LeafDepths(nodes, root, 1) : \A e \in LeafDepths(nodes, root, 1) : e <= d

\* The index of the entry ChooseLeaf is specified to take: least enlargement,
\* then least area, then first.
BestIndex(entries, mbr) ==
    CHOOSE i \in 1..Len(entries) :
        \A j \in (1..Len(entries)) \ {i} :
            \/ enlargement_of(entries[i].mbr, mbr) < enlargement_of(entries[j].mbr, mbr)
            \/ /\ enlargement_of(entries[i].mbr, mbr) = enlargement_of(entries[j].mbr, mbr)
               /\ area(entries[i].mbr) < area(entries[j].mbr)
            \/ /\ enlargement_of(entries[i].mbr, mbr) = enlargement_of(entries[j].mbr, mbr)
               /\ area(entries[i].mbr) = area(entries[j].mbr)
               /\ i < j

\* The entry the loop of _choose_leaf settles on in a list of entries.
ScanBest(entries, mbr) ==
    choose_leaf_scan(entries, mbr, 1,
        [best_entry |-> 0, min_enlargement |-> 0, min_area |-> 0]).best_entry

\* How often entry e occurs in a list of entries.
CountIn(entries, e) == Cardinality({k \in 1..Len(entries) : entries[k] = e})

\* Two lists of entries that hold every entry of `entries` exactly once.
IsPartition(entries, e1, e2) ==
    /\ e1 # <<>>
    /\ e2 # <<>>
    /\ Len(e1) + Len(e2) = Len(entries)
    /\ \A i \in 1..Len(entries) : CountIn(e1, entries[i]) + CountIn(e2, entries[i]) = 1

\* The two halves split_node makes of node n: new nodes of the kind of n whose
\* entries partition those of n and whose cached MBRs are their unions.
SplitsWell(n, sp) ==
    /\ {sp.node1, sp.node2} = {Len(nodes) + 1, Len(nodes) + 2}
    /\ IsPartition(nodes[n].entries, sp.nodes[sp.node1].entries, sp.nodes[sp.node2].entries)
    /\ sp.nodes[sp.node1].mbr = UnionOfEntries(sp.nodes[sp.node1].entries)
    /\ sp.nodes[sp.node2].mbr = UnionOfEntries(sp.nodes[sp.node2].entries)

\* The halves of a split are of the kind of the node they replace, and the
\* root made over them is internal.
SplitKeepsKind(n, sp) ==
    /\ sp.nodes[sp.node1].is_leaf = nodes[n].is_leaf
    /\ sp.nodes[sp.node2].is_leaf = nodes[n].is_leaf
    /\ ~new_root_over(sp.nodes, sp.node1, sp.node2, Len(sp.nodes) + 1).nodes[Len(sp.nodes) + 1].is_leaf

\* The width of a list of entries on the axis with fields lo, hi, and the
\* numerator of its normalized separation (highestLow - lowestHigh).
AxisWidth(entries, lo, hi) == MaxOver(entries, hi) - MinOver(entries, lo)

AxisGap(entries, lo, hi) == MaxOver(entries, lo) - MinOver(entries, hi)

\* Both axes have width > 0 and the longitude's separation is strictly greater.
LonStrictlyGreater(entries) ==
    /\ AxisWidth(entries, "min_lat", "max_lat") > 0
    /\ AxisWidth(entries, "min_lon", "max_lon") > 0
    /\ AxisGap(entries, "min_lon", "max_lon") * AxisWidth(entries, "min_lat", "max_lat")
          > AxisGap(entries, "min_lat", "max_lat") * AxisWidth(entries, "min_lon", "max_lon")

\* The axis the seeds are specified to be taken on.
SeedAxis(entries) ==
    IF AxisWidth(entries, "min_lat", "max_lat") > 0 /\ ~LonStrictlyGreater(entries) THEN "lat"
    ELSE IF AxisWidth(entries, "min_lon", "max_lon") > 0 THEN "lon"
    ELSE "none"

\* Seeds s1, s2 (1-based) on the axis with fields lo, hi: s1 achieves
\* highestLow, s2 achieves lowestHigh, or s1 achieves both and s2 is the index
\* after s1, cyclically.
SeedsOnAxis(entries, s1, s2, lo, hi) ==
    /\ s1 # s2
    /\ entries[s1].mbr[lo] = MaxOver(entries, lo)
    /\ \/ entries[s2].mbr[hi] = MinOver(entries, hi)
       \/ /\ entries[s1].mbr[hi] = MinOver(entries, hi)
          /\ s2 = (s1 % Len(entries)) + 1

SeedsAsSpecified(entries, axis, s1, s2) ==
    /\ s1 \in 1..Len(entries)
    /\ s2 \in 1..Len(entries)
    /\ axis = "none" => (s1 = 1 /\ s2 = 2)
    /\ axis = "lat" => SeedsOnAxis(entries, s1, s2, "min_lat", "max_lat")
    /\ axis = "lon" => SeedsOnAxis(entries, s1, s2, "min_lon", "max_lon")

\* The entries of e (a half of a split, its seed first) received before entry
\* r was placed, rem being the non-seed entries in the order they are placed
\* and j the place of r in rem.
ReceivedBefore(e, rem, j) ==
    SubSeq(e, 1, 1 + Cardinality({i \in 1..(j - 1) : CountIn(e, rem[i]) > 0}))

\* Which rule places an entry with MBR `mbr` between halves that hold g1, g2.
DecidedBy(g1, g2, mbr) ==
    IF enlargement_of(UnionOfEntries(g1), mbr) # enlargement_of(UnionOfEntries(g2), mbr)
    THEN "enlargement"
    ELSE IF area(UnionOfEntries(g1)) # area(UnionOfEntries(g2)) THEN "area"
    ELSE "count"

\* The half (1 or 2) specified to receive an entry with MBR `mbr`.
SpecifiedHalf(g1, g2, mbr) ==
    IF DecidedBy(g1, g2, mbr) = "enlargement"
    THEN IF enlargement_of(UnionOfEntries(g1), mbr) < enlargement_of(UnionOfEntries(g2), mbr)
         THEN 1 ELSE 2
    ELSE IF DecidedBy(g1, g2, mbr) = "area"
    THEN IF area(UnionOfEntries(g1)) < area(UnionOfEntries(g2)) THEN 1 ELSE 2
    ELSE IF Len(g1) <= Len(g2) THEN 1 ELSE 2

\* The non-seed entries of a node in original order.
NonSeeds(entries, s1, s2) ==
    LET idx == {i \in 1..Len(entries) : i # s1 /\ i # s2}
        nth(k) == CHOOSE i \in idx : Cardinality({h \in idx : h < i}) = k - 1
    IN  [k \in 1..Cardinality(idx) |-> entries[nth(k)]]

\* The halves e1, e2 of a split of `entries` with seeds s1, s2 are the seeds
\* followed by the other entries, each placed as specified, in original order.
AssignedAsSpecified(entries, s1, s2, e1, e2, rem) ==
    /\ e1[1] = entries[s1]
    /\ e2[1] = entries[s2]
    /\ \A j \in 1..Len(rem) :
          CountIn(IF SpecifiedHalf(ReceivedBefore(e1, rem, j), ReceivedBefore(e2, rem, j),
                                   rem[j].mbr) = 1 THEN e1 ELSE e2,
                  rem[j]) = 1
    /\ \A i, j \in 1..Len(rem) :
          i < j => /\ \A k, l \in 2..Len(e1) : (e1[k] = rem[i] /\ e1[l] = rem[j]) => k < l
                   /\ \A k, l \in 2..Len(e2) : (e2[k] = rem[i] /\ e2[l] = rem[j]) => k < l

\* The children moved by the split of an internal node point to the half that
\* received them.
ChildrenFollow(sp, half) ==
    \A k \in 1..Len(sp.nodes[half].entries) :
        sp.nodes[half].is_leaf \/ sp.nodes[sp.nodes[half].entries[k].ref].parent = half

SplitAssignsWell(n, seeds, sp) ==
    /\ AssignedAsSpecified(nodes[n].entries, seeds[1], seeds[2],
                           sp.nodes[sp.node1].entries, sp.nodes[sp.node2].entries,
                           NonSeeds(nodes[n].entries, seeds[1], seeds[2]))
    /\ ChildrenFollow(sp, sp.node1)
    /\ ChildrenFollow(sp, sp.node2)

\* Some non-seed entry of the split of `entries` was placed by rule `rule`.
SomePlacedBy(entries, seeds, sp, rule) ==
    \E j \in 1..Len(NonSeeds(entries, seeds[1], seeds[2])) :
        DecidedBy(ReceivedBefore(sp.nodes[sp.node1].entries, NonSeeds(entries, seeds[1], seeds[2]), j),
                  ReceivedBefore(sp.nodes[sp.node2].entries, NonSeeds(entries, seeds[1], seeds[2]), j),
                  NonSeeds(entries, seeds[1], seeds[2])[j].mbr) = rule

\* Every entry of the list has the same MBR.
AllSameMBR(entries) == \A i \in 1..Len(entries) : entries[i].mbr = entries[1].mbr

\* The two halves' entry counts differ by at most one.
Balanced(sp) ==
    /\ Len(sp.nodes[sp.node1].entries) - Len(sp.nodes[sp.node2].entries) <= 1
    /\ Len(sp.nodes[sp.node2].entries) - Len(sp.nodes[sp.node1].entries) <= 1

\* The least k with b^k >= n, for b >= 2 and n >= 1: ceil(log_b(n)).
RECURSIVE CeilLogFrom(_, _, _, _)
CeilLogFrom(b, n, k, power) == IF power >= n THEN k ELSE CeilLogFrom(b, n, k + 1, power * b)

CeilLog(b, n) == CeilLogFrom(b, n, 0, 1)

\* The closed intervals of the MBR and of the query rectangle have a common
\* point on both axes.
Overlaps(m, center, half_lat, half_lon) ==
    /\ Max2(m.min_lat, center.lat - half_lat) <= Min2(m.max_lat, center.lat + half_lat)
    /\ Max2(m.min_lon, center.lon - half_lon) <= Min2(m.max_lon, center.lon + half_lon)

WellFormed(m) == m.min_lat <= m.max_lat /\ m.min_lon <= m.max_lon

\* The well-formed MBRs over the wider grid.
WellFormedMBRs ==
    {MBR(x[1], x[2], x[3], x[4]) :
        x \in {y \in WideLats \X WideLats \X Lons \X Lons : y[1] <= y[2] /\ y[3] <= y[4]}}

\* Rectangle outer contains rectangle inner.
Contains(outer, inner) ==
    /\ outer.min_lat <= inner.min_lat /\ inner.max_lat <= outer.max_lat
    /\ outer.min_lon <= inner.min_lon /\ inner.max_lon <= outer.max_lon

\* The MBRs stored in the entries of the nodes of ns and cached on them.
StoredMBRs(ns) ==
    {ns[n].mbr : n \in {k \in 1..Len(ns) : ns[k].mbr # None}}
        \cup UNION {{ns[n].entries[i].mbr : i \in 1..Len(ns[n].entries)} : n \in 1..Len(ns)}

\* The laws of expansion for a with b and c.
ExpansionLaws(a, b, c) ==
    /\ expand_to_include_mbr(a, b) = expand_to_include_mbr(b, a)
    /\ expand_to_include_mbr(expand_to_include_mbr(a, b), c)
          = expand_to_include_mbr(a, expand_to_include_mbr(b, c))
    /\ expand_to_include_mbr(a, a) = a
    /\ Contains(expand_to_include_mbr(a, b), a)
    /\ Contains(expand_to_include_mbr(a, b), b)
    /\ (Contains(c, a) /\ Contains(c, b)) => Contains(c, expand_to_include_mbr(a, b))
    /\ area(a) >= 0
    /\ area(expand_to_include_mbr(a, b)) >= 0

\* The smallest rectangle over the points pts[i], i in the non-empty set S.
PointUnion(pts, S) ==
    MBR(CHOOSE v \in {pts[i].lat : i \in S} : \A j \in S : v <= pts[j].lat,
        CHOOSE v \in {pts[i].lat : i \in S} : \A j \in S : v >= pts[j].lat,
        CHOOSE v \in {pts[i].lon : i \in S} : \A j \in S : v <= pts[j].lon,
        CHOOSE v \in {pts[i].lon : i \in S} : \A j \in S : v >= pts[j].lon)

\* m is from_point of an inserted point or an expansion of such MBRs.
FromInsertedPoints(pts, m) ==
    \E S \in (SUBSET (1..Len(pts))) \ {{}} : m = PointUnion(pts, S)

\* Every MBR stored in the tree ns over the points pts is well-formed and made
\* from inserted points; a leaf entry holds from_point of its point.
StoredWellFormed(ns, pts) ==
    /\ \A m \in StoredMBRs(ns) : WellFormed(m) /\ FromInsertedPoints(pts, m)
    /\ \A n \in 1..Len(ns) : \A i \in 1..Len(ns[n].entries) :
          ns[n].is_leaf => ns[n].entries[i].mbr = from_point(pts[ns[n].entries[i].ref])

\* All entries held anywhere in ns, as (kind, ref, mbr).
AllEntries(ns) == UNION {{ns[n].entries[i] : i \in 1..Len(ns[n].entries)} : n \in 1..Len(ns)}

\* The step is a call of insert.
InsertStep == points' # points

\* ------------------------------------------------------------- claims
\* C1: for max_entries >= 2 and radius > 0, search_square returns exactly the
\* inserted points within the radius of the center, each exactly once.
C1_Completeness ==
    (Searched /\ max_entries >= 2 /\ lastOp.radius > 0) =>
        \A p \in 1..Len(points) :
            Occurrences(lastOp.ret, p) =
                IF p \in WithinRadius(lastOp.center, lastOp.radius) THEN 1 ELSE 0

\* C2: every pair (p, d) returned by search_square is an inserted point with d
\* its distance to the center, d <= radius, p inside the closed candidate
\* rectangle; no leaf entry is reported more than once; the distances are
\* non-decreasing along the result.
C2_Soundness ==
    Searched =>
        /\ \A k \in 1..Len(lastOp.ret) :
              /\ lastOp.ret[k].point \in 1..Len(points)
              /\ lastOp.ret[k].distance = distance_to(lastOp.center, points[lastOp.ret[k].point])
              /\ lastOp.ret[k].distance <= lastOp.radius
              /\ InSquare(lastOp.center, lastOp.radius, points[lastOp.ret[k].point])
        /\ \A k \in 1..Len(lastOp.ret) - 1 :
              lastOp.ret[k].distance <= lastOp.ret[k + 1].distance
        /\ \A p \in 1..Len(points) :
              Occurrences(lastOp.ret, p) <=
                  Cardinality({e \in LeafEntries(nodes, root) : nodes[e[1]].entries[e[2]].ref = p})

\* A search with a positive radius over a tree of height >= 2 that returned
\* at least two points at different distances.
C2_Witness ==
    /\ Searched
    /\ lastOp.radius > 0
    /\ ~nodes[root].is_leaf
    /\ Len(lastOp.ret) >= 2
    /\ lastOp.ret[1].distance < lastOp.ret[Len(lastOp.ret)].distance

\* C3: in every reachable state (max_entries >= 2), every node's cached MBR
\* covers every point stored below it, and the MBR stored in an internal entry
\* equals the child's current cached MBR.
C3_Covering ==
    max_entries >= 2 =>
        \A n \in Reachable :
            /\ \A e \in LeafEntries(nodes, n) :
                  /\ nodes[n].mbr # None
                  /\ contains_point(nodes[n].mbr, points[nodes[e[1]].entries[e[2]].ref])
            /\ ~nodes[n].is_leaf =>
                  \A i \in 1..Len(nodes[n].entries) :
                      nodes[n].entries[i].mbr = nodes[nodes[n].entries[i].ref].mbr

\* C4: for every node reachable from the root, node.mbr is the componentwise
\* union of the MBRs stored in node.entries, and is None exactly when
\* node.entries is empty, which only the root of an empty tree is.
C4_CachedMBR ==
    \A n \in Reachable :
        /\ (nodes[n].mbr = None) <=> (nodes[n].entries = <<>>)
        /\ nodes[n].entries # <<>> => nodes[n].mbr = UnionOfEntries(nodes[n].entries)
        /\ nodes[n].entries = <<>> => (n = root /\ points = <<>>)

\* An insert has added a point to a leaf of a tree of height >= 2.
C4_Witness ==
    /\ lastOp.op = "insert"
    /\ ~nodes[root].is_leaf
    /\ \E n \in Reachable : nodes[n].is_leaf /\ Len(nodes[n].entries) >= 2

\* C5: after any sequence of inserts every leaf is at the same depth from the
\* root (for every max_entries explored, those >= 2 among them).
C5_HeightBalance ==
    root # 0 => Cardinality(LeafDepths(nodes, root, 1)) = 1

\* A cascade of splits up to the root has made a tree of height 3.
C5_Witness ==
    /\ max_entries >= 2
    /\ lastOp.op = "insert"
    /\ 3 \in LeafDepths(nodes, root, 1)

\* C6: no node reachable from the root holds more than max_entries entries
\* (for the positive values of max_entries).
C6_Capacity ==
    max_entries >= 1 => \A n \in Reachable : Len(nodes[n].entries) <= max_entries

\* C7: after N inserts count_nodes()['total_entries'] = N and every inserted
\* point sits in exactly one leaf entry.
C7_Conservation ==
    root # 0 =>
        /\ count_nodes(nodes, root).total_entries = Len(points)
        /\ \A p \in 1..Len(points) :
              Cardinality({e \in LeafEntries(nodes, root) :
                              nodes[e[1]].entries[e[2]].ref = p}) = 1

\* C8: the sequence search_square returns is, element by element, the one the
\* linear scan produces (for max_entries >= 2 and radius > 0).
C8_OrderEquivalence ==
    (Searched /\ max_entries >= 2 /\ lastOp.radius > 0) =>
        lastOp.ret = linear_search(points, lastOp.center.lat, lastOp.center.lon, lastOp.radius)

\* C9: a search of a tree into which nothing was inserted returns the empty
\* sequence and leaves the tree an empty single-leaf root.
C9_EmptyTreeSearch ==
    (Searched /\ points = <<>>) =>
        /\ lastOp.ret = <<>>
        /\ root = 1
        /\ nodes = << [is_leaf |-> TRUE, mbr |-> None, entries |-> <<>>, parent |-> 0] >>

\* A search was made before any insert.
C9_Witness == Searched /\ points = <<>> /\ lastOp.radius > 0

\* C10: no tree exists, and no insert runs, with max_entries <= 0.
C10_NonPositiveRejected == root # 0 => max_entries > 0

\* C11: a search with radius <= 0 is rejected: it never yields a result list.
C11_NonPositiveRadiusRejected == Searched => lastOp.radius > 0

\* C12: for max_entries >= 2 insert never fails: every internal node has at
\* least one entry, the descent of _choose_leaf for any point ends in a leaf,
\* and every node that was handed to _split_node had at least two entries and
\* two distinct seeds inside its entry list.
C12_InsertNeverFails ==
    (root # 0 /\ max_entries >= 2) =>
        /\ \A n \in Reachable : ~nodes[n].is_leaf => Len(nodes[n].entries) >= 1
        /\ \A p \in Coords :
              /\ choose_leaf(nodes, root, from_point(p)) \in Reachable
              /\ nodes[choose_leaf(nodes, root, from_point(p))].is_leaf
        /\ \A n \in SplitNodes :
              /\ Len(nodes[n].entries) >= 2
              /\ linear_pick_seeds(nodes[n].entries)[1] \in 1..Len(nodes[n].entries)
              /\ linear_pick_seeds(nodes[n].entries)[2] \in 1..Len(nodes[n].entries)
              /\ linear_pick_seeds(nodes[n].entries)[1] # linear_pick_seeds(nodes[n].entries)[2]

\* An insert has split an internal node, max_entries being >= 2.
C12_Witness ==
    /\ max_entries >= 2
    /\ lastOp.op = "insert"
    /\ \E n \in SplitNodes : ~nodes[n].is_leaf

\* C13: an insert that overflows the root replaces it by a new internal root
\* with parent None and exactly two entries, the two halves, whose parent is
\* the new root, and get_height() grows by 1; any other insert leaves the root
\* and get_height() as they were; with max_entries = 2 the third insert gives
\* get_height() = 2.
C13_RootSplit ==
    [][InsertStep =>
          /\ (Len(nodes'[root].entries) > max_entries) <=> (root' # root)
          /\ root' # root =>
                /\ root' = Len(nodes')
                /\ ~nodes'[root'].is_leaf
                /\ nodes'[root'].parent = 0
                /\ Len(nodes'[root'].entries) = 2
                /\ nodes'[root'].entries[1].ref # nodes'[root'].entries[2].ref
                /\ \A i \in 1..2 :
                      /\ nodes'[root'].entries[i].ref \in (Len(nodes) + 1)..(Len(nodes') - 1)
                      /\ nodes'[nodes'[root'].entries[i].ref].parent = root'
                      /\ nodes'[nodes'[root'].entries[i].ref].is_leaf = nodes[root].is_leaf
                /\ get_height(nodes', root') = get_height(nodes, root) + 1
          /\ root' = root => get_height(nodes', root') = get_height(nodes, root)
          /\ (max_entries = 2 /\ Len(points') = 3) => get_height(nodes', root') = 2
      ]_vars

\* The third insert with max_entries = 2 has just split the root leaf.
C13_Witness ==
    /\ lastOp.op = "insert"
    /\ max_entries = 2
    /\ Len(points) = 3
    /\ root = Len(nodes)
    /\ get_height(nodes, root) = 2

\* C14: get_height() is >= 1 and is the number of nodes on the longest path
\* from the root to a leaf; count_nodes() gives the number of reachable
\* leaves, of reachable internal nodes and of leaf entries.
C14_DiagnosticsExact ==
    root # 0 =>
        /\ get_height(nodes, root) >= 1
        /\ get_height(nodes, root) = MaxLeafDepth
        /\ nodes[root].is_leaf => get_height(nodes, root) = 1
        /\ count_nodes(nodes, root).leaf = Cardinality({n \in Reachable : nodes[n].is_leaf})
        /\ count_nodes(nodes, root).internal = Cardinality({n \in Reachable : ~nodes[n].is_leaf})
        /\ count_nodes(nodes, root).total_entries = Cardinality(LeafEntries(nodes, root))
        /\ lastOp.op = "get_height" => lastOp.ret = MaxLeafDepth
        /\ lastOp.op = "count_nodes" =>
              lastOp.ret.leaf + lastOp.ret.internal = Cardinality(Reachable)

\* get_height() has answered 3 on a tree with several internal nodes.
C14_Witness ==
    /\ lastOp.op = "get_height"
    /\ lastOp.ret = 3
    /\ count_nodes(nodes, root).internal >= 3

\* C15: search_square, get_height and count_nodes change nothing of the tree:
\* not the root, not a node's entries, MBR, is_leaf or parent, not
\* max_entries or min_entries, nor the points held.
C15_ReadOnly ==
    [][lastOp'.op \in {"search", "count_nodes", "get_height"} =>
          UNCHANGED <<root, nodes, max_entries, min_entries, points>>]_vars

\* A search has run on a tree of three or more points with an internal root.
C15_Witness ==
    /\ Searched
    /\ Len(points) >= 3
    /\ ~nodes[root].is_leaf
    /\ lastOp.candidates # <<>>

\* C16: the root has parent None; every other reachable node has a parent,
\* which is reachable, is the child of exactly one entry of the tree, and that
\* entry is in the node its parent reference names; no reachable node names a
\* split node as its parent or holds an entry for it.
C16_ParentConsistency ==
    root # 0 =>
        /\ nodes[root].parent = 0
        /\ \A n \in Reachable \ {root} :
              /\ nodes[n].parent # 0
              /\ nodes[n].parent \in Reachable
              /\ Cardinality(ParentEntries(n)) = 1
              /\ \A e \in ParentEntries(n) : e[1] = nodes[n].parent
        /\ \A s \in SplitNodes :
              /\ ParentEntries(s) = {}
              /\ \A n \in Reachable : nodes[n].parent # s

\* An insert has split an internal node that was the root: the tree is three
\* levels high under a root just made.
C16_Witness ==
    /\ lastOp.op = "insert"
    /\ root = Len(nodes)
    /\ get_height(nodes, root) = 3

\* C17: a leaf holds only (MBR, Point) entries and an internal node only
\* (MBR, RTreeNode) entries; the halves of a split are of the kind of the node
\* split, and a root made by a root split is internal.
C17_EntryKinds ==
    /\ \A n \in Arena : \A i \in 1..Len(nodes[n].entries) :
          IF nodes[n].is_leaf
          THEN /\ nodes[n].entries[i].kind = "Point"
               /\ nodes[n].entries[i].ref \in 1..Len(points)
          ELSE /\ nodes[n].entries[i].kind = "RTreeNode"
               /\ nodes[n].entries[i].ref \in Arena
    /\ \A n \in Arena : nodes[n].entries # <<>> => SplitKeepsKind(n, split_node(nodes, n))
    /\ root > 1 => ~nodes[root].is_leaf

\* The tree holds an internal node below the root, a half of a split internal
\* node, with two or more children.
C17_Witness ==
    /\ lastOp.op = "insert"
    /\ \E n \in Reachable \ {root} : ~nodes[n].is_leaf /\ Len(nodes[n].entries) >= 2

\* C18: at every internal node and for every new point, _choose_leaf takes the
\* entry of least enlargement, among those the one of least area, among those
\* the first; the descent from the root ends at a leaf.
C18_ChooseLeaf ==
    root # 0 =>
        \A p \in Coords :
            /\ \A n \in Reachable :
                  (~nodes[n].is_leaf /\ nodes[n].entries # <<>>) =>
                      ScanBest(nodes[n].entries, from_point(p)) =
                          nodes[n].entries[BestIndex(nodes[n].entries, from_point(p))].ref
            /\ choose_leaf(nodes, root, from_point(p)) # 0
            /\ nodes[choose_leaf(nodes, root, from_point(p))].is_leaf

\* For some new point the root's first entry needs more enlargement than the
\* entry taken, and for some new point two entries tie on the enlargement.
C18_Witness ==
    /\ root # 0
    /\ ~nodes[root].is_leaf
    /\ \E p \in Coords :
          /\ BestIndex(nodes[root].entries, from_point(p)) > 1
          /\ enlargement_of(nodes[root].entries[1].mbr, from_point(p)) >
                enlargement_of(nodes[root].entries[BestIndex(nodes[root].entries, from_point(p))].mbr,
                               from_point(p))
    /\ \E p \in Coords :
          enlargement_of(nodes[root].entries[1].mbr, from_point(p)) =
              enlargement_of(nodes[root].entries[2].mbr, from_point(p))

\* C19: after an insert a node has been split exactly when its entry count
\* became greater than max_entries; an insert that brings the leaf to
\* max_entries entries or fewer creates no node and leaves the root and the
\* height as they were.
C19_StrictThreshold ==
    [][InsertStep =>
          /\ \A n \in 1..Len(nodes') :
                (n \notin Subtree(nodes', root')) <=> (Len(nodes'[n].entries) > max_entries)
          /\ Len(nodes[choose_leaf(nodes, root, from_point(points'[Len(points')]))].entries) + 1
                <= max_entries =>
                   /\ Len(nodes') = Len(nodes)
                   /\ root' = root
                   /\ get_height(nodes', root') = get_height(nodes, root)
      ]_vars

\* C20: for every node with two or more entries the seeds picked are distinct
\* and _split_node returns two new non-empty nodes whose entries hold every
\* entry of the node exactly once, each with the union of its entries as MBR.
C20_SplitPartition ==
    \A n \in Arena :
        Len(nodes[n].entries) >= 2 =>
            /\ linear_pick_seeds(nodes[n].entries)[1] # linear_pick_seeds(nodes[n].entries)[2]
            /\ SplitsWell(n, split_node(nodes, n))

\* An insert has split a node of three or more entries for which the two
\* dimensions' loops left the same index in both seeds.
C20_Witness ==
    /\ lastOp.op = "insert"
    /\ \E n \in SplitNodes :
          /\ Len(nodes[n].entries) >= 3
          /\ distinct_seeds_unchecked(nodes[n].entries,
                 pick_seeds_dim(nodes[n].entries,
                     pick_seeds_dim(nodes[n].entries,
                         [max_separation |-> [num |-> 0, den |-> 0], seed1_idx |-> 1, seed2_idx |-> 2],
                         "min_lat", "max_lat"),
                     "min_lon", "max_lon"))[1]
             = distinct_seeds_unchecked(nodes[n].entries,
                 pick_seeds_dim(nodes[n].entries,
                     pick_seeds_dim(nodes[n].entries,
                         [max_separation |-> [num |-> 0, den |-> 0], seed1_idx |-> 1, seed2_idx |-> 2],
                         "min_lat", "max_lat"),
                     "min_lon", "max_lon"))[2]

\* C21: the seeds are taken on the latitude, or on the longitude when the
\* latitude has width 0 or the longitude's normalized separation is strictly
\* greater; seed 1 achieves highestLow and seed 2 lowestHigh on that axis; with
\* both widths 0 the seeds are the first two entries; seeds that would
\* coincide are made distinct.
C21_SeedPicking ==
    \A n \in Arena :
        Len(nodes[n].entries) >= 2 =>
            SeedsAsSpecified(nodes[n].entries, SeedAxis(nodes[n].entries),
                             linear_pick_seeds(nodes[n].entries)[1],
                             linear_pick_seeds(nodes[n].entries)[2])

\* An insert has split a node on the longitude, the latitude having width 0,
\* and the tree holds a node for which both axes have a width and the
\* longitude separates strictly more.
C21_Witness ==
    /\ lastOp.op = "insert"
    /\ \E n \in SplitNodes :
          /\ Len(nodes[n].entries) >= 3
          /\ AxisWidth(nodes[n].entries, "min_lat", "max_lat") = 0
          /\ SeedAxis(nodes[n].entries) = "lon"
    /\ \E n \in Arena :
          Len(nodes[n].entries) >= 2 /\ LonStrictlyGreater(nodes[n].entries)

\* C22: each non-seed entry, in original order, goes to the half whose current
\* MBR needs the smaller enlargement, then to the one of smaller area, then to
\* the one with fewer entries (the first on equal counts); the children of a
\* split internal node point to the half that received them.
C22_SplitAssignment ==
    \A n \in Arena :
        Len(nodes[n].entries) >= 2 =>
            SplitAssignsWell(n, linear_pick_seeds(nodes[n].entries), split_node(nodes, n))

\* An insert has split a node one of whose entries was placed by the entry
\* counts and one by the areas.
C22_Witness ==
    /\ lastOp.op = "insert"
    /\ \E n \in SplitNodes :
          /\ Len(nodes[n].entries) >= 3
          /\ SomePlacedBy(nodes[n].entries, linear_pick_seeds(nodes[n].entries),
                          split_node(nodes, n), "count")
    /\ \E n \in SplitNodes :
          /\ Len(nodes[n].entries) >= 3
          /\ SomePlacedBy(nodes[n].entries, linear_pick_seeds(nodes[n].entries),
                          split_node(nodes, n), "area")

\* C23: when every entry of a node has the same MBR the two halves of its
\* split have entry counts that differ by at most one.
C23_BalancedUnderTies ==
    \A n \in Arena :
        (nodes[n].entries # <<>> /\ AllSameMBR(nodes[n].entries)) =>
            Balanced(split_node(nodes, n))

\* An insert has split a leaf of four points with identical coordinates.
C23_Witness ==
    /\ lastOp.op = "insert"
    /\ \E n \in SplitNodes :
          /\ nodes[n].is_leaf
          /\ Len(nodes[n].entries) >= 4
          /\ AllSameMBR(nodes[n].entries)

\* C25: after N >= 1 inserts get_height() <= ceil(log_{min_entries}(N)) + 1,
\* for max_entries >= 2.
C25_LogHeight ==
    (root # 0 /\ max_entries >= 2 /\ Len(points) >= 1) =>
        get_height(nodes, root) <= CeilLog(min_entries, Len(points)) + 1

\* C26: intersects_square is false exactly when the MBR and the query
\* rectangle have no common point, edges and corners counting; it is true for
\* every MBR that contains a point of the closed query rectangle.
C26_RectangleTests ==
    Searched =>
        \A n \in Arena :
            nodes[n].mbr # None =>
                /\ intersects_square(nodes[n].mbr, lastOp.center.lat, lastOp.center.lon,
                                     half_side_lat_of(lastOp.radius),
                                     half_side_lon_of(lastOp.radius, lastOp.center))
                      <=> Overlaps(nodes[n].mbr, lastOp.center,
                                   half_side_lat_of(lastOp.radius),
                                   half_side_lon_of(lastOp.radius, lastOp.center))
                /\ \A p \in Coords :
                      (contains_point(nodes[n].mbr, p) /\ InSquare(lastOp.center, lastOp.radius, p))
                          => intersects_square(nodes[n].mbr, lastOp.center.lat, lastOp.center.lon,
                                               half_side_lat_of(lastOp.radius),
                                               half_side_lon_of(lastOp.radius, lastOp.center))

\* A search has taken a candidate from a leaf whose MBR shares only a corner
\* with the query rectangle.
C26_Witness ==
    /\ Searched
    /\ lastOp.radius > 0
    /\ \E k \in 1..Len(lastOp.candidates) :
          /\ nodes[lastOp.candidates[k].node].mbr.max_lat
                = lastOp.center.lat - half_side_lat_of(lastOp.radius)
          /\ nodes[lastOp.candidates[k].node].mbr.max_lon
                = lastOp.center.lon - half_side_lon_of(lastOp.radius, lastOp.center)

\* C27: expand_to_include_mbr is commutative, associative and idempotent, its
\* result contains both inputs and lies in every rectangle that contains
\* both; expand_to_include(point) is expand_to_include_mbr(from_point(point));
\* area is never negative and is 0 for the MBR of a point.
C27_ExpansionAlgebra ==
    lastOp.op = "insert" =>
        /\ \A a, c \in StoredMBRs(nodes) : \A b \in WellFormedMBRs :
              ExpansionLaws(a, b, c) /\ ExpansionLaws(b, a, c)
        /\ \A a \in StoredMBRs(nodes) : \A p \in WideCoords :
              expand_to_include(a, p) = expand_to_include_mbr(a, from_point(p))
        /\ \A p \in WideCoords : area(from_point(p)) = 0

\* An insert has left a node whose cached MBR, the expansion of its entries,
\* has a width on both axes.
C27_Witness ==
    /\ lastOp.op = "insert"
    /\ \E n \in Reachable :
          /\ Len(nodes[n].entries) >= 2
          /\ area(nodes[n].mbr) >= 2
          /\ nodes[n].mbr = expand_to_include_mbr(nodes[n].entries[1].mbr, nodes[n].entries[2].mbr)

\* C29: the rectangle of a query (center.lat +- radius/111 degrees, center.lon
\* +- radius/(111 cos(center.lat)) degrees) contains every inserted point whose
\* great-circle distance from the center is at most the radius, also across
\* the 180th meridian and at high latitudes with large radii.
C29_Circumscribes ==
    (Searched /\ lastOp.radius > 0) =>
        \A p \in WithinRadius(lastOp.center, lastOp.radius) :
            InSquare(lastOp.center, lastOp.radius, points[p])

\* C28: every MBR stored in an entry or cached on a node has min <= max on
\* both axes and is from_point of an inserted point or an expansion of such;
\* no step changes the coordinates of a stored Point or the MBR of a stored
\* entry.
C28_WellFormedMBR ==
    [][/\ StoredWellFormed(nodes', points')
       /\ \A i \in 1..Len(points) : points'[i] = points[i]
       /\ \A e \in AllEntries(nodes) : \A f \in AllEntries(nodes') :
             (e.kind = f.kind /\ e.ref = f.ref) => e.mbr = f.mbr
      ]_vars

\* An insert has grown a leaf below an internal node whose entry for the leaf
\* still holds the MBR stored when the leaf was attached.
C28_Witness ==
    /\ lastOp.op = "insert"
    /\ \E n \in Reachable :
          /\ ~nodes[n].is_leaf
          /\ \E i \in 1..Len(nodes[n].entries) :
                /\ nodes[n].entries[i].mbr # nodes[nodes[n].entries[i].ref].mbr
                /\ Contains(nodes[nodes[n].entries[i].ref].mbr, nodes[n].entries[i].mbr)

\* node, its parent, ... up to the root of the tree with nodes ns.
RECURSIVE AncestorChain(_, _)
AncestorChain(ns, node) ==
    IF node = 0 THEN <<>> ELSE <<node>> \o AncestorChain(ns, ns[node].parent)

IsPrefix(s, t) == Len(s) <= Len(t) /\ \A k \in 1..Len(s) : s[k] = t[k]

\* The calls of _handle_overflow made so far by the stepped insert go from
\* the chosen leaf upward, each to the parent reference of the one before,
\* over the ancestors the leaf had before the call, none twice, and each was
\* given a node with more than max_entries entries.
CascadeUpward ==
    /\ IsPrefix(ins.handled, AncestorChain(ins.before.nodes, ins.leaf))
    /\ \A j, k \in 1..Len(ins.handled) : ins.handled[j] = ins.handled[k] => j = k
    /\ \A k \in 1..Len(ins.handled) :
          /\ Len(nodes[ins.handled[k]].entries) > max_entries
          /\ k < Len(ins.handled) => ins.handled[k + 1] = nodes[ins.handled[k]].parent

\* The stepped insert has returned.
InsDone == pc = "idle" /\ lastOp.op = "insert" /\ ins.point = lastOp.point /\ ins.leaf # 0

\* Where the cascade of the returned insert has stopped.
CascadeStopped ==
    IF ins.handled = <<>>
    THEN Len(nodes[ins.leaf].entries) <= max_entries /\ root = ins.before.root
    ELSE LET last == ins.handled[Len(ins.handled)]
         IN  IF last = ins.before.root
             THEN /\ nodes[last].parent = 0
                  /\ root = Len(nodes)
                  /\ root \notin 1..Len(ins.before.nodes)
                  /\ Len(nodes[root].entries) = 2
             ELSE /\ root = ins.before.root
                  /\ Len(nodes[nodes[last].parent].entries) <= max_entries

\* C24: an insert run statement by statement returns; its calls of
\* _handle_overflow go strictly upward through the parent references from
\* the chosen leaf, over each ancestor at most once, and stop at the first
\* ancestor that does not overflow or with the split of the root, which
\* happens at most once per insert and adds at most one level; the tree it
\* leaves is the tree of RTree.insert.
C24_InsertTerminates ==
    /\ [](ins.leaf # 0 => CascadeUpward)
    /\ [](InsDone =>
            /\ CascadeStopped
            /\ get_height(nodes, root) <= get_height(ins.before.nodes, ins.before.root) + 1
            /\ [nodes |-> nodes, root |-> root]
                 = insert(ins.before, max_entries, points[ins.point], ins.point))
    /\ (pc # "idle") ~> InsDone

\* An insert has returned after two calls of _handle_overflow, on a leaf and
\* then on the root, in a tree that had three levels or more after it.
C24_Witness ==
    /\ InsDone
    /\ Len(ins.handled) >= 2
    /\ ins.handled[Len(ins.handled)] = ins.before.root
    /\ max_entries >= 2

\* The Point objects of a returned list.
PointsOf(ret) == {ret[k].point : k \in 1..Len(ret)}

\* C30: a search run in between the statements of inserts returns every
\* point the same query returns on each tree the inserts left, the tree
\* before the first of them included, unless one of its loops over a
\* parent's entries ended between the removal of a split child and the
\* append of its second half.
C30_TornSearch ==
    (srch.pc = "done" /\ ~srch.torn) => srch.expected \subseteq PointsOf(srch.ret)

\* A search has returned without a point that was inserted, and returned by
\* the same query, before the insert it ran alongside began, after a loop
\* over the parent of a split non-root node ended on the torn list.
C30_Witness ==
    /\ srch.pc = "done"
    /\ srch.torn
    /\ \E p \in srch.expected : p \notin PointsOf(srch.ret)

====
